---- MODULE Spec2Model ----
(***************************************************************************)
(* Model of scripts/build-embeddings.mjs: the incremental build of the     *)
(* semantic-search index.  One build is the async function of lines        *)
(* 64-161; it is cut into steps at its suspension points (the filesystem   *)
(* calls of one loop iteration, the embedding provider call of a flush).   *)
(* The corpus and the artifact on disk outlive a build, so several builds  *)
(* follow one another, each reading the artifact the last one wrote.       *)
(*                                                                         *)
(* Texts are modelled as sequences of blocks, the maximal pieces that no   *)
(* run of two or more newlines cuts: a block is [len, tag], its length in  *)
(* characters after trimming and a tag naming its content.                 *)
(***************************************************************************)
EXTENDS Integers, Sequences, FiniteSets, TLC

\* ---------- Config (lines 12-20) ----------
BATCH_SIZE == 16
MAX_CONCURRENCY == 2

\* ---------- Bounds of the model ----------
\* Number of plain, always-present documents enumerated after the two
\* documents whose state varies (bulk corpus only).
MaxFill == 31

\* The two documents whose presence, draft flag, mtime, front-matter slug and
\* body vary; their paths relative to CONTENT_DIR, as segments and extension.
Specials == {1, 2}
FilePath(f) ==
  IF f = 1 THEN [segs |-> <<"A", "index">>, ext |-> "md"]
  ELSE IF f = 2 THEN [segs |-> <<"b">>, ext |-> "mdx"]
  ELSE [segs |-> <<"p" \o ToString(f)>>, ext |-> "md"]

Mtimes == {100, 200}
\* Front-matter slug values: none, one with surrounding blanks, one that has
\* the shape of a fragment id.
FmSlugs == {"", " a ", "a#para-0"}

\* What reading the artifact yields when no artifact exists: the rejection
\* that the load catches.
NoFile == <<[code |-> "ENOENT"]>>
NotRun == [ran |-> FALSE, chunks |-> <<>>]

\* ---------- Bodies ----------
\* A body (Markdown) is a sequence of paragraphs separated by blank lines.
ShortBody == << [len |-> 10, tag |-> "short"] >>
LongBody(f) == << [len |-> 41, tag |-> "f" \o ToString(f) \o "p0"],
                  [len |-> 41, tag |-> "f" \o ToString(f) \o "p1"] >>
FillBody(f) == << [len |-> 41, tag |-> "f" \o ToString(f) \o "p0"] >>

Absent == [present |-> FALSE, draft |-> FALSE, mtime |-> 100, fmSlug |-> "", body |-> ShortBody]

\* The states one varying document can be in.
DocStates(f) ==
  {Absent} \cup
  IF f = 1
  THEN [present : {TRUE}, draft : BOOLEAN, mtime : Mtimes, fmSlug : {""},
        body : {ShortBody, LongBody(f)}]
  ELSE [present : {TRUE}, draft : BOOLEAN, mtime : Mtimes, fmSlug : FmSlugs,
        body : {LongBody(f)}]

FillerDoc(f) == [present |-> TRUE, draft |-> FALSE, mtime |-> 100, fmSlug |-> "",
                 body |-> FillBody(f)]

\* ---------- Helpers (lines 22-60) ----------
\* String.prototype.trim on the front-matter slug values.
Trim(s) == IF s = " a " THEN "a" ELSE s

\* String.prototype.toLowerCase on one path segment.
ToLowerCase(s) == IF s = "A" THEN "a" ELSE s

RECURSIVE Join(_)
Join(segs) ==
  IF Len(segs) = 0 THEN ""
  ELSE IF Len(segs) = 1 THEN segs[1]
  ELSE segs[1] \o "/" \o Join(Tail(segs))

deriveSlug(filePath, fmSlug) ==
  IF fmSlug # "" /\ Trim(fmSlug) # ""
  THEN Trim(fmSlug)
  ELSE LET segs == filePath.segs
           \* the extension is dropped, then a trailing "/index"
           noIndex == IF Len(segs) > 1 /\ segs[Len(segs)] = "index"
                      THEN SubSeq(segs, 1, Len(segs) - 1) ELSE segs
       IN  Join([i \in 1..Len(noIndex) |-> ToLowerCase(noIndex[i])])

RECURSIVE JoinBlocks(_)
JoinBlocks(md) ==
  IF Len(md) = 0 THEN [len |-> 0, tag |-> ""]
  ELSE IF Len(md) = 1 THEN md[1]
  ELSE LET rest == JoinBlocks(Tail(md))
       IN  [len |-> md[1].len + 1 + rest.len, tag |-> md[1].tag \o " " \o rest.tag]

\* Every run of whitespace, blank lines included, becomes one space: the
\* result is a single block.
markdownToPlain(md) == << JoinBlocks(md) >>

\* Filter40 keeping a paragraph of exactly 40 characters.
RECURSIVE Filter40Inclusive(_)
Filter40Inclusive(paras) ==
  IF Len(paras) = 0 THEN <<>>
  ELSE IF paras[1].len >= 40 THEN <<paras[1]>> \o Filter40Inclusive(Tail(paras))
  ELSE Filter40Inclusive(Tail(paras))

RECURSIVE Filter40(_)
Filter40(paras) ==
  IF Len(paras) = 0 THEN <<>>
  ELSE IF paras[1].len > 40 THEN <<paras[1]>> \o Filter40(Tail(paras))
  ELSE Filter40(Tail(paras))

chunkText(text, baseSlug) ==
  LET paras == Filter40(text)
  IN  [i \in 1..Len(paras) |->
         [id |-> baseSlug \o "#para-" \o ToString(i - 1), text |-> paras[i]]]

\* The embedding provider on one text (deterministic).
Embed(text) == << text >>
extractor(texts) == [i \in 1..Len(texts) |-> Embed(texts[i])]

Min(a, b) == IF a < b THEN a ELSE b


\* ---------- State ----------
VARIABLES
  corpus,      \* state of each varying document (the filesystem under CONTENT_DIR)
  fill,        \* number of plain documents enumerated after them
  disk,        \* content of EMBEDDING_FILE: NoFile or a sequence of entries
  pc,          \* position of the build: idle, loop, await, write, done, aborted
  files,       \* line 80: the enumerated files
  idx,         \* position of the for loop of line 115 in files (1-based)
  prev,        \* line 89: previous index, a map from key to mtime
  queue,       \* line 99
  embeddings,  \* line 95
  batch,       \* line 103: the batch whose provider call is pending
  ret,         \* which call of flushBatch is pending: throttle or final
  cause,       \* what aborted the build
  diskBefore,  \* disk when the build started
  pushed,      \* every item pushed onto queue in this build, in push order
  calls,       \* the texts of every provider call of this build, in call order
  writes,      \* number of writes of EMBEDDING_FILE in this build
  inits,       \* number of provider initialisations in this build
  clean,       \* the last build completed and the corpus was not changed since
  rerun,       \* value of clean when this build started
  chunkIn,     \* a text handed to chunkText on its own
  chunkOut     \* [ran, chunks]: whether chunkText was called and what it returned

progVars == <<files, idx, prev, queue, embeddings, batch, ret>>
histVars == <<cause, diskBefore, pushed, calls, writes, inits, rerun>>
chunkVars == <<chunkIn, chunkOut>>
buildVars == <<corpus, fill, disk, pc, files, idx, prev, queue, embeddings, batch, ret,
               cause, diskBefore, pushed, calls, writes, inits, clean, rerun>>
vars == <<buildVars, chunkVars>>

Doc(f) == IF f \in Specials THEN corpus[f] ELSE FillerDoc(f)

\* glob (line 80): the present documents in enumeration order.
Glob ==
  LET sp == IF corpus[1].present
            THEN (IF corpus[2].present THEN <<1, 2>> ELSE <<1>>)
            ELSE (IF corpus[2].present THEN <<2>> ELSE <<>>)
  IN  sp \o [i \in 1..fill |-> 2 + i]

\* Lines 89-93: prev[e.id] = e.mtime for each entry, a later entry overwriting
\* an earlier one of the same id; a missing file leaves prev empty.
LoadPrev(d) ==
  IF d = NoFile THEN <<>>
  ELSE LET ids == {d[i].id : i \in DOMAIN d}
           last(k) == CHOOSE i \in DOMAIN d :
                        d[i].id = k /\ \A j \in DOMAIN d : d[j].id = k => j <= i
       IN  [k \in ids |-> d[last(k)].mtime]

\* Line 131: prev[slug] && prev[slug] === mtime
Unchanged(p, slug, mtime) ==
  slug \in DOMAIN p /\ p[slug] # 0 /\ p[slug] = mtime

\* Lines 126-128 for document f in state d, with no title or description in
\* the front matter: title falls back to the slug, description to "".
SlugIn(f, d) == deriveSlug(FilePath(f), d.fmSlug)
TitleIn(f, d) == SlugIn(f, d)
DescriptionIn(f, d) == ""

\* Lines 136-144: the items document f in state d pushes onto the queue.
ItemsIn(f, d) ==
  LET slug == SlugIn(f, d)
      plain == markdownToPlain(d.body)
      chunks == chunkText(plain, slug)
  IN  [i \in 1..Len(chunks) |->
         [meta |-> [id |-> chunks[i].id, slug |-> slug, title |-> TitleIn(f, d),
                    description |-> DescriptionIn(f, d), mtime |-> d.mtime],
          text |-> TitleIn(f, d) \o ". " \o DescriptionIn(f, d) \o ". "
                     \o chunks[i].text.tag]]

SlugOf(f) == SlugIn(f, Doc(f))
Items(f) == ItemsIn(f, Doc(f))

\* Lines 103-104: queue.splice(0, BATCH_SIZE)
SpliceBatch(q) == SubSeq(q, 1, Min(BATCH_SIZE, Len(q)))
SpliceRest(q) == SubSeq(q, Min(BATCH_SIZE, Len(q)) + 1, Len(q))
Texts(b) == [i \in 1..Len(b) |-> b[i].text]

\* BatchEntries with the outputs paired in reverse: item i gets the vector of
\* item Len(b) + 1 - i.
BatchEntriesShifted(b, outputs) ==
  [i \in 1..Len(b) |->
     [id |-> b[i].meta.id, slug |-> b[i].meta.slug, title |-> b[i].meta.title,
      description |-> b[i].meta.description, mtime |-> b[i].meta.mtime,
      vector |-> outputs[Len(b) + 1 - i]]]

\* BatchEntries with the batch appended last item first.
BatchEntriesReversed(b, outputs) ==
  [i \in 1..Len(b) |->
     [id |-> b[Len(b) + 1 - i].meta.id, slug |-> b[Len(b) + 1 - i].meta.slug,
      title |-> b[Len(b) + 1 - i].meta.title,
      description |-> b[Len(b) + 1 - i].meta.description,
      mtime |-> b[Len(b) + 1 - i].meta.mtime,
      vector |-> outputs[Len(b) + 1 - i]]]

\* Lines 106-110: one entry per item of the batch, with the i-th output.
BatchEntries(b, outputs) ==
  [i \in 1..Len(b) |->
     [id |-> b[i].meta.id, slug |-> b[i].meta.slug, title |-> b[i].meta.title,
      description |-> b[i].meta.description, mtime |-> b[i].meta.mtime,
      vector |-> outputs[i]]]

Corpora == {c \in [Specials -> DocStates(1) \cup DocStates(2)] :
              \A f \in Specials : c[f] \in DocStates(f)}

InitCommon ==
  /\ corpus \in Corpora
  /\ disk = NoFile
  /\ pc = "idle"
  /\ files = <<>> /\ idx = 0 /\ prev = <<>> /\ queue = <<>> /\ embeddings = <<>>
  /\ batch = <<>> /\ ret = "none"
  /\ cause = "none" /\ diskBefore = NoFile /\ pushed = <<>> /\ calls = <<>>
  /\ writes = 0 /\ inits = 0 /\ clean = FALSE /\ rerun = FALSE
  /\ chunkIn = <<>> /\ chunkOut = NotRun

Init == InitCommon /\ fill = 0
InitBulk == InitCommon /\ fill \in {0, BATCH_SIZE - 1, MaxFill}

\* ---------- The build ----------
\* The unhandled rejection of the async function: the build stops here.
Abort(c) ==
  /\ pc' = "aborted" /\ cause' = c /\ clean' = FALSE
  /\ UNCHANGED <<corpus, fill, chunkVars, disk, progVars, diskBefore, pushed, calls,
                 writes, inits, rerun>>

\* Line 68 throws: the provider cannot be initialised.
StartFail ==
  /\ pc = "idle"
  /\ pc' = "aborted" /\ cause' = "init" /\ clean' = FALSE
  /\ diskBefore' = disk /\ rerun' = clean /\ inits' = 0
  /\ UNCHANGED <<corpus, fill, chunkVars, disk, progVars, pushed, calls, writes>>

\* StartEmpty returning without the write of line 84.
StartEmptyNoWrite ==
  /\ pc = "idle"
  /\ Glob = <<>>
  /\ files' = Glob
  /\ pc' = "done" /\ clean' = TRUE
  /\ diskBefore' = disk /\ rerun' = clean /\ inits' = 1
  /\ UNCHANGED <<corpus, disk, writes, fill, chunkVars, idx, prev, queue, embeddings, batch, ret,
                 cause, pushed, calls>>

\* Lines 65-86 on an empty corpus: "[]" is written and the build returns.
StartEmpty ==
  /\ pc = "idle"
  /\ Glob = <<>>
  /\ files' = Glob
  /\ disk' = <<>> /\ writes' = 1
  /\ pc' = "done" /\ clean' = TRUE
  /\ diskBefore' = disk /\ rerun' = clean /\ inits' = 1
  /\ UNCHANGED <<corpus, fill, chunkVars, idx, prev, queue, embeddings, batch, ret,
                 cause, pushed, calls>>

\* StartBuild with the entries of the previous artifact kept in embeddings.
StartBuildCarry ==
  /\ pc = "idle"
  /\ Glob # <<>>
  /\ files' = Glob
  /\ prev' = LoadPrev(disk)
  /\ embeddings' = (IF disk = NoFile THEN <<>> ELSE disk) /\ queue' = <<>> /\ idx' = 1
  /\ pc' = "loop"
  /\ diskBefore' = disk /\ rerun' = clean /\ inits' = 1
  /\ UNCHANGED <<corpus, fill, chunkVars, disk, batch, ret, cause, pushed, calls, writes,
                 clean>>

\* Lines 65-99 on a corpus with documents.
StartBuild ==
  /\ pc = "idle"
  /\ Glob # <<>>
  /\ files' = Glob
  /\ prev' = LoadPrev(disk)
  /\ embeddings' = <<>> /\ queue' = <<>> /\ idx' = 1
  /\ pc' = "loop"
  /\ diskBefore' = disk /\ rerun' = clean /\ inits' = 1
  /\ UNCHANGED <<corpus, fill, chunkVars, disk, batch, ret, cause, pushed, calls, writes,
                 clean>>

InLoop == pc = "loop" /\ idx <= Len(files)

\* DocAccessFail with the entries made so far written out before the abort.
DocAccessFailWrites ==
  /\ InLoop
  /\ disk' = embeddings /\ writes' = writes + 1
  /\ pc' = "aborted" /\ cause' = "access" /\ clean' = FALSE
  /\ UNCHANGED <<corpus, fill, chunkVars, progVars, diskBefore, pushed, calls, inits, rerun>>

\* Lines 116-118: stat or readFile throws.
DocAccessFail == InLoop /\ Abort("access")

\* Line 119: the front-matter parser throws; nothing catches it.
DocMalformed == InLoop /\ Abort("matter")

\* Lines 121-124
DocDraft ==
  /\ InLoop
  /\ Doc(files[idx]).draft
  /\ idx' = idx + 1
  /\ UNCHANGED <<corpus, fill, chunkVars, disk, pc, files, prev, queue, embeddings, batch, ret,
                 histVars, clean>>

\* Lines 130-134
DocSkip ==
  /\ InLoop
  /\ ~Doc(files[idx]).draft
  /\ Unchanged(prev, SlugOf(files[idx]), Doc(files[idx]).mtime)
  /\ idx' = idx + 1
  /\ UNCHANGED <<corpus, fill, chunkVars, disk, pc, files, prev, queue, embeddings, batch, ret,
                 histVars, clean>>

\* DocRecompute flushing only when the queue is longer than the threshold.
DocRecomputeLate ==
  /\ InLoop
  /\ ~Doc(files[idx]).draft
  /\ ~Unchanged(prev, SlugOf(files[idx]), Doc(files[idx]).mtime)
  /\ LET q == queue \o Items(files[idx])
     IN  /\ pushed' = pushed \o Items(files[idx])
         /\ IF Len(q) > BATCH_SIZE * MAX_CONCURRENCY
            THEN /\ batch' = SpliceBatch(q)
                 /\ queue' = SpliceRest(q)
                 /\ calls' = Append(calls, Texts(SpliceBatch(q)))
                 /\ pc' = "await" /\ ret' = "throttle"
                 /\ idx' = idx
            ELSE /\ queue' = q
                 /\ UNCHANGED <<batch, calls, pc, ret>>
                 /\ idx' = idx + 1
  /\ UNCHANGED <<corpus, fill, chunkVars, disk, files, prev, embeddings, cause, diskBefore,
                 writes, inits, clean, rerun>>

\* DocRecompute calling flushBatch without awaiting it: the loop goes on
\* while the provider call is pending.
DocRecomputeNoAwait ==
  /\ InLoop
  /\ ~Doc(files[idx]).draft
  /\ ~Unchanged(prev, SlugOf(files[idx]), Doc(files[idx]).mtime)
  /\ LET q == queue \o Items(files[idx])
     IN  /\ pushed' = pushed \o Items(files[idx])
         /\ IF Len(q) >= BATCH_SIZE * MAX_CONCURRENCY
            THEN /\ batch' = SpliceBatch(q)
                 /\ queue' = SpliceRest(q)
                 /\ calls' = Append(calls, Texts(SpliceBatch(q)))
                 /\ pc' = "loop" /\ ret' = "throttle"
                 /\ idx' = idx + 1
            ELSE /\ queue' = q
                 /\ UNCHANGED <<batch, calls, pc, ret>>
                 /\ idx' = idx + 1
  /\ UNCHANGED <<corpus, fill, chunkVars, disk, files, prev, embeddings, cause, diskBefore,
                 writes, inits, clean, rerun>>

\* Lines 136-149: the chunks are pushed; at the threshold flushBatch takes a
\* batch off the queue and calls the provider (lines 102-105).
DocRecompute ==
  /\ InLoop
  /\ ~Doc(files[idx]).draft
  /\ ~Unchanged(prev, SlugOf(files[idx]), Doc(files[idx]).mtime)
  /\ LET q == queue \o Items(files[idx])
     IN  /\ pushed' = pushed \o Items(files[idx])
         /\ IF Len(q) >= BATCH_SIZE * MAX_CONCURRENCY
            THEN /\ batch' = SpliceBatch(q)
                 /\ queue' = SpliceRest(q)
                 /\ calls' = Append(calls, Texts(SpliceBatch(q)))
                 /\ pc' = "await" /\ ret' = "throttle"
                 /\ idx' = idx
            ELSE /\ queue' = q
                 /\ UNCHANGED <<batch, calls, pc, ret>>
                 /\ idx' = idx + 1
  /\ UNCHANGED <<corpus, fill, chunkVars, disk, files, prev, embeddings, cause, diskBefore,
                 writes, inits, clean, rerun>>

\* FinalFlush initialising the provider again for its batch.
FinalFlushReinit ==
  /\ pc = "loop" /\ idx > Len(files)
  /\ IF queue = <<>>
     THEN /\ pc' = "write"
          /\ UNCHANGED <<queue, batch, calls, ret, inits>>
     ELSE /\ inits' = inits + 1
          /\ batch' = SpliceBatch(queue)
          /\ queue' = SpliceRest(queue)
          /\ calls' = Append(calls, Texts(SpliceBatch(queue)))
          /\ pc' = "await" /\ ret' = "final"
  /\ UNCHANGED <<corpus, fill, chunkVars, disk, files, idx, prev, embeddings, cause, diskBefore,
                 pushed, writes, clean, rerun>>

\* FinalFlush never returning when the queue is empty.
FinalFlushHangs ==
  /\ pc = "loop" /\ idx > Len(files)
  /\ queue # <<>>
  /\ batch' = SpliceBatch(queue)
  /\ queue' = SpliceRest(queue)
  /\ calls' = Append(calls, Texts(SpliceBatch(queue)))
  /\ pc' = "await" /\ ret' = "final"
  /\ UNCHANGED <<corpus, fill, chunkVars, disk, files, idx, prev, embeddings, cause, diskBefore,
                 pushed, writes, inits, clean, rerun>>

\* Line 153: flushBatch after the loop; an empty queue returns at once.
FinalFlush ==
  /\ pc = "loop" /\ idx > Len(files)
  /\ IF queue = <<>>
     THEN /\ pc' = "write"
          /\ UNCHANGED <<queue, batch, calls, ret>>
     ELSE /\ batch' = SpliceBatch(queue)
          /\ queue' = SpliceRest(queue)
          /\ calls' = Append(calls, Texts(SpliceBatch(queue)))
          /\ pc' = "await" /\ ret' = "final"
  /\ UNCHANGED <<corpus, fill, chunkVars, disk, files, idx, prev, embeddings, cause, diskBefore,
                 pushed, writes, inits, clean, rerun>>

\* Lines 105-112: the provider returns and the entries are appended; the
\* caller goes on (the next document, or line 154).
ProviderReturn ==
  /\ pc = "await"
  /\ embeddings' = embeddings \o BatchEntries(batch, extractor(Texts(batch)))
  /\ batch' = <<>> /\ ret' = "none"
  /\ IF ret = "throttle"
     THEN pc' = "loop" /\ idx' = idx + 1
     ELSE pc' = "write" /\ idx' = idx
  /\ UNCHANGED <<corpus, fill, chunkVars, disk, files, prev, queue, histVars, clean>>

\* ProviderThrow with the entries made so far written out before the abort.
ProviderThrowPersists ==
  /\ pc = "await"
  /\ disk' = embeddings /\ writes' = writes + 1
  /\ pc' = "aborted" /\ cause' = "provider" /\ clean' = FALSE
  /\ UNCHANGED <<corpus, fill, chunkVars, progVars, diskBefore, pushed, calls, inits, rerun>>

\* Line 105 throws.
ProviderThrow == pc = "await" /\ Abort("provider")

\* WriteArtifact keeping the entries of the previous artifact whose id no new
\* entry has.
WriteArtifactMerge ==
  /\ pc = "write"
  /\ LET old == IF disk = NoFile THEN <<>> ELSE disk
         isStale(e) == \A i \in DOMAIN embeddings : embeddings[i].id # e.id
     IN  disk' = SelectSeq(old, isStale) \o embeddings
  /\ writes' = writes + 1
  /\ pc' = "done" /\ clean' = TRUE
  /\ UNCHANGED <<corpus, fill, chunkVars, progVars, cause, diskBefore, pushed, calls, inits,
                 rerun>>

\* Lines 154-156
WriteArtifact ==
  /\ pc = "write"
  /\ pc' = "done" /\ clean' = TRUE
  /\ disk' = embeddings /\ writes' = writes + 1
  /\ UNCHANGED <<corpus, fill, chunkVars, progVars, cause, diskBefore, pushed, calls,
                 inits, rerun>>

\* The process ends; its memory is gone, the corpus and the artifact stay.
Exit ==
  /\ pc \in {"done", "aborted"}
  /\ pc' = "idle"
  /\ files' = <<>> /\ idx' = 0 /\ prev' = <<>> /\ queue' = <<>> /\ embeddings' = <<>>
  /\ batch' = <<>> /\ ret' = "none"
  /\ cause' = "none" /\ diskBefore' = NoFile /\ pushed' = <<>> /\ calls' = <<>>
  /\ writes' = 0 /\ inits' = 0 /\ rerun' = FALSE
  /\ UNCHANGED <<corpus, fill, chunkVars, disk, clean>>

\* Between two builds a document is added, removed or edited.
Edit ==
  /\ pc = "idle"
  /\ \E f \in Specials : \E d \in DocStates(f) :
        /\ d # corpus[f]
        /\ corpus' = [corpus EXCEPT ![f] = d]
  /\ clean' = FALSE
  /\ UNCHANGED <<fill, chunkVars, disk, pc, progVars, histVars>>

NextBuild ==
  \/ StartFail \/ StartEmpty \/ StartBuild
  \/ DocAccessFail \/ DocMalformed \/ DocDraft \/ DocSkip \/ DocRecompute
  \/ FinalFlush \/ ProviderReturn \/ ProviderThrow \/ WriteArtifact \/ Exit

Next == NextBuild \/ Edit

Spec == Init /\ [][Next]_vars
SpecBulk == InitBulk /\ [][NextBuild]_vars

\* ---------- Properties ----------
Range(seq) == {seq[i] : i \in DOMAIN seq}
PrevEntries == IF diskBefore = NoFile THEN <<>> ELSE diskBefore
Written == IF disk = NoFile THEN <<>> ELSE disk
MetaOf(e) == [id |-> e.id, slug |-> e.slug, title |-> e.title,
              description |-> e.description, mtime |-> e.mtime]
\* The entry the build makes of a pushed item.
EntryOf(item) == BatchEntries(<<item>>, extractor(<<item.text>>))[1]
\* The document is enumerated, is not a draft, and the previous artifact
\* records its slug with its current mtime.
RecordedUnchanged(f) ==
  /\ f \in Range(files)
  /\ ~Doc(f).draft
  /\ \E e \in Range(PrevEntries) : e.slug = SlugOf(f) /\ e.mtime = Doc(f).mtime

\* C1: when a build completes, the queue is empty and every fragment pushed
\* onto the queue has exactly one entry in the written artifact.
C1_NoFragmentLost ==
  pc = "done" =>
    /\ queue = <<>>
    /\ Len(disk) = Len(pushed)
    /\ \A i \in DOMAIN pushed : disk[i] = EntryOf(pushed[i])

\* C2: when a build that follows a completed build of the same corpus
\* completes, every entry the previous artifact holds for a non-draft document
\* it records with the document's current mtime is in the new artifact,
\* unchanged: no unchanged document is dropped.
C2_CarryForward ==
  pc = "done" /\ rerun =>
    \A f \in Range(files) :
      RecordedUnchanged(f) =>
        \A e \in Range(PrevEntries) :
          e.slug = SlugOf(f) => e \in Range(disk)

\* C3: a document the previous artifact records with its current mtime is
\* skipped: no provider call carries one of its texts.
C3_SkipUnchanged ==
  \A f \in Range(files) :
    RecordedUnchanged(f) =>
      \A c \in Range(calls) : \A it \in Range(Items(f)) : it.text \notin Range(c)

\* C4: when the provider call of a flush throws, the build is aborted and the
\* artifact on disk is the one the build found when it started.
C4_AtomicFailure ==
  pc = "aborted" /\ cause = "provider" => disk = diskBefore /\ writes = 0

\* A build over an earlier artifact whose final flush throws after a throttle
\* flush has appended its entries.
C4_Witness ==
  /\ pc = "aborted" /\ cause = "provider"
  /\ ret = "final" /\ Len(calls) = 2 /\ embeddings # <<>>
  /\ diskBefore # NoFile /\ diskBefore # <<>>

\* C5: a failure of the front-matter parser on a document does not abort the
\* build.
C5_MalformedRecoverable ==
  pc = "aborted" => cause # "matter"

\* Every vector an entry made from document f can carry, in whatever state.
OriginVectors(f) ==
  {Embed(it.text) : it \in UNION {Range(ItemsIn(f, d)) : d \in DocStates(f)}}

\* C6: in a written artifact no entry comes from a document that is a draft,
\* and every entry with a draft document's slug was made in this build from
\* an item pushed by a document that is not a draft.
C6_DraftExclusion ==
  pc = "done" =>
    \A f \in Range(files) :
      Doc(f).draft =>
        \A e \in Range(disk) :
          /\ e.vector \notin OriginVectors(f)
          /\ e.slug = SlugOf(f) => \E it \in Range(pushed) : e = EntryOf(it)

\* A completed build with a draft document that the previous artifact had
\* entries of, next to entries of another document.
C6_Witness ==
  /\ pc = "done" /\ disk # <<>>
  /\ \E f \in Range(files) :
       /\ Doc(f).draft
       /\ \E e \in Range(PrevEntries) : e.vector \in OriginVectors(f)

\* C7: a build that follows a completed build of the same corpus writes the
\* artifact it found.
C7_Determinism ==
  pc = "done" /\ rerun => disk = diskBefore

\* C8: the artifact is written at most once in a build, only when every
\* enumerated document has been processed and no flush is pending; a build
\* that has not completed, one aborted by a stat or read failure among them,
\* has written nothing and left the artifact as it found it.
C8_WriteOnlyOnCompletion ==
  /\ writes <= 1
  /\ writes = 1 => /\ pc = "done"
                   /\ \A k \in DOMAIN files : k < idx
                   /\ batch = <<>> /\ ret = "none"
  /\ pc \in {"loop", "await", "write", "aborted"} => writes = 0 /\ disk = diskBefore

\* A build over an earlier artifact aborted by a stat or read failure after a
\* throttle flush appended entries.
C8_Witness ==
  /\ pc = "aborted" /\ cause = "access"
  /\ embeddings # <<>> /\ diskBefore # NoFile /\ diskBefore # <<>>

\* The items pushed by the first k enumerated documents, document after
\* document and fragment after fragment.
RECURSIVE EnumerationOrder(_)
EnumerationOrder(k) ==
  IF k = 0 THEN <<>>
  ELSE EnumerationOrder(k - 1) \o
         (IF Doc(files[k]).draft
             \/ Unchanged(prev, SlugOf(files[k]), Doc(files[k]).mtime)
          THEN <<>> ELSE Items(files[k]))

\* C9: the written entries are, in order, the entries of the items pushed
\* first, and the items were pushed in document-enumeration order, the
\* fragments of one document in fragment order.
C9_StableOrder ==
  pc = "done" =>
    /\ pushed = EnumerationOrder(Len(files))
    /\ Len(disk) <= Len(pushed)
    /\ \A i \in DOMAIN disk : disk[i] = EntryOf(pushed[i])

\* A completed build whose entries came from two flushes.
C9_Witness ==
  /\ pc = "done" /\ Len(calls) = 2 /\ Len(disk) = 2 * BATCH_SIZE
  /\ disk[1].slug # disk[2].slug

\* C10: no two entries of a written artifact have the same id.
C10_IdUnique ==
  pc = "done" =>
    \A i, j \in DOMAIN disk : i # j => disk[i].id # disk[j].id

\* The fragment ids the first k enumerated documents would push if every
\* paragraph of a body that is long enough to be kept became one fragment.
RECURSIVE ParagraphIds(_)
ParagraphIds(k) ==
  IF k = 0 THEN <<>>
  ELSE ParagraphIds(k - 1) \o
         (IF Doc(files[k]).draft
             \/ Unchanged(prev, SlugOf(files[k]), Doc(files[k]).mtime)
          THEN <<>>
          ELSE LET c == chunkText(Doc(files[k]).body, SlugOf(files[k]))
               IN  [i \in 1..Len(c) |-> c[i].id])

\* C11: a recomputed document whose body has k paragraphs, each long enough
\* to be kept, pushes k fragments with ids slug#para-0 .. slug#para-(k-1), in
\* order.
C11_ParagraphChunking ==
  pc = "done" =>
    [i \in 1..Len(pushed) |-> pushed[i].meta.id] = ParagraphIds(Len(files))

\* ---------- chunkText on its own ----------
\* Paragraphs per text, and the trimmed lengths a paragraph is drawn from.
MaxChunkParas == 3
ChunkLens == {10, 39, 40, 41}
ChunkTexts ==
  UNION {{[i \in 1..n |-> [len |-> L[i], tag |-> "p" \o ToString(i)]] :
            L \in [1..n -> ChunkLens]} : n \in 0..MaxChunkParas}

InitChunk ==
  /\ corpus = [f \in Specials |-> Absent] /\ fill = 0
  /\ disk = NoFile
  /\ pc = "idle"
  /\ files = <<>> /\ idx = 0 /\ prev = <<>> /\ queue = <<>> /\ embeddings = <<>>
  /\ batch = <<>> /\ ret = "none"
  /\ cause = "none" /\ diskBefore = NoFile /\ pushed = <<>> /\ calls = <<>>
  /\ writes = 0 /\ inits = 0 /\ clean = FALSE /\ rerun = FALSE
  /\ chunkIn \in ChunkTexts /\ chunkOut = NotRun

\* Line 137, the call alone: chunkText(text, "s")
ApplyChunk ==
  /\ ~chunkOut.ran
  /\ chunkOut' = [ran |-> TRUE, chunks |-> chunkText(chunkIn, "s")]
  /\ UNCHANGED <<buildVars, chunkIn>>

SpecChunk == InitChunk /\ [][ApplyChunk]_vars

\* The paragraphs of chunkIn that chunkOut holds.
KeptParas == {i \in DOMAIN chunkIn : \E j \in DOMAIN chunkOut.chunks : chunkOut.chunks[j].text = chunkIn[i]}

C13_EmptyCorpus ==
  Glob = <<>> /\ pc # "idle" /\ cause # "init" =>
    /\ pc = "done" /\ cause = "none"
    /\ disk # NoFile /\ disk = <<>> /\ writes = 1
    /\ calls = <<>> /\ pushed = <<>>

\* A completed build of an empty corpus over an earlier artifact with entries.
C13_Witness ==
  /\ pc = "done" /\ files = <<>> /\ Glob = <<>>
  /\ diskBefore # NoFile /\ diskBefore # <<>>

RECURSIVE Flatten(_)
Flatten(seqs) == IF Len(seqs) = 0 THEN <<>> ELSE seqs[1] \o Flatten(Tail(seqs))

\* C14: every provider call carries the texts of between 1 and BATCH_SIZE
\* items, the calls taken together carry the texts of the items pushed so
\* far, in push order and without gap, up to the items still queued (each
\* batch is the prefix of the queue); the pending batch is the last call; and
\* every entry appended pairs the vector of an item's text with the id, slug,
\* title, description and mtime of that item.  A flush of an empty queue
\* makes no call.
C14_BatchAlignment ==
  /\ \A k \in DOMAIN calls : 1 <= Len(calls[k]) /\ Len(calls[k]) <= BATCH_SIZE
  /\ Len(Flatten(calls)) + Len(queue) = Len(pushed)
  /\ Flatten(calls) \o Texts(queue) = Texts(pushed)
  /\ batch # <<>> => batch \o queue = SubSeq(pushed, Len(embeddings) + 1, Len(pushed))
  /\ batch # <<>> => calls[Len(calls)] = Texts(batch)
  /\ pc \in {"loop", "write", "done"} => Len(Flatten(calls)) = Len(embeddings)
  /\ \A i \in DOMAIN embeddings :
       /\ MetaOf(embeddings[i]) = pushed[i].meta
       /\ embeddings[i].vector = Embed(pushed[i].text)

\* A second, full batch is pending after a first one was appended, with items
\* left in the queue.
C14_Witness ==
  /\ pc = "await" /\ Len(calls) = 2 /\ Len(batch) = BATCH_SIZE
  /\ Len(embeddings) = BATCH_SIZE /\ queue # <<>>

\* C15: at the top of the loop, each document ingested and its throttle
\* check done, the queue holds fewer than BATCH_SIZE * MAX_CONCURRENCY items.
C15_QueueBound ==
  pc = "loop" => Len(queue) < BATCH_SIZE * MAX_CONCURRENCY

\* Back in the loop after a throttle flush, with the rest of the queue kept.
C15_Witness ==
  /\ pc = "loop" /\ Len(calls) = 1 /\ Len(embeddings) = BATCH_SIZE
  /\ Len(queue) = BATCH_SIZE * MAX_CONCURRENCY - BATCH_SIZE

\* The document is enumerated, is not a draft, and the previous artifact has
\* no entry of its slug with its current mtime: it is new or modified.
NewOrModified(f) ==
  /\ f \in Range(files)
  /\ ~Doc(f).draft
  /\ ~\E e \in Range(PrevEntries) : e.slug = SlugOf(f) /\ e.mtime = Doc(f).mtime

\* C16: in a written artifact every entry with the slug of a new or modified
\* document was made in this build from a pushed item: an entry of the
\* previous artifact with that slug that this build did not make again is
\* not in it.
C16_RecomputeReplaces ==
  pc = "done" =>
    \A f \in Range(files) :
      NewOrModified(f) =>
        /\ \A e \in Range(disk) :
             e.slug = SlugOf(f) => \E it \in Range(pushed) : e = EntryOf(it)
        /\ \A e \in Range(PrevEntries) :
             e.slug = SlugOf(f) /\ (\A it \in Range(pushed) : e # EntryOf(it))
               => e \notin Range(disk)

\* A completed build with a modified document: the previous artifact has an
\* entry of its slug with another mtime, the new one an entry with the
\* current mtime.
C16_Witness ==
  /\ pc = "done"
  /\ \E f \in Range(files) :
       /\ NewOrModified(f)
       /\ \E e \in Range(PrevEntries) : e.slug = SlugOf(f)
       /\ \E e \in Range(disk) : e.slug = SlugOf(f) /\ e.mtime = Doc(f).mtime

\* A provider call is pending: a batch was taken and its entries are not
\* appended yet.
CallPending == batch # <<>> /\ pc # "aborted"

C18_SingleInit ==
  /\ inits <= 1
  /\ pc \in {"loop", "await", "write", "done"} => inits = 1
  /\ idx >= 1 \/ calls # <<>> \/ pushed # <<>> => inits = 1

\* A completed build with two provider calls and one initialisation.
C18_Witness ==
  /\ pc = "done" /\ inits = 1 /\ Len(calls) = 2 /\ idx > Len(files)

\* One step of the loop body for the current document: stat, readFile and
\* matter return or throw, then the draft, skip or recompute branch runs.
DocStep == DocAccessFail \/ DocMalformed \/ DocDraft \/ DocSkip \/ DocRecompute

\* The pending provider call returns or throws.
ProviderStep == ProviderReturn \/ ProviderThrow

\* A started build keeps running: every filesystem call and every provider
\* call it awaits eventually returns or throws, and the event loop resumes
\* the build after it. Nothing obliges a build to be started.
\* Every such step moves the build's position, <<pc, idx>>.
position == <<pc, idx>>

Progress ==
  /\ WF_position(DocStep)
  /\ WF_position(FinalFlush)
  /\ WF_position(ProviderStep)
  /\ WF_position(WriteArtifact)

SpecLive == InitBulk /\ [][NextBuild]_vars /\ Progress

Running == pc \in {"loop", "await", "write"}

\* C19: given that every filesystem call and every provider call returns
\* or throws, a build that is running eventually reaches one of its two
\* final states: the artifact written (exactly one write, no error), or
\* aborted by a fatal error (no write); the two never coincide.
C19_Termination ==
  /\ Running ~> (pc \in {"done", "aborted"})
  /\ [](pc = "done" => cause = "none" /\ writes = 1)
  /\ [](pc = "aborted" => cause # "none" /\ writes = 0)

C19_Witness ==
  /\ pc = "done" /\ cause = "none" /\ writes = 1
  /\ Len(calls) = 2 /\ Len(pushed) > BATCH_SIZE

====
